---- MODULE Spec2Model ----
(***************************************************************************)
(* Model of src/main.rs: Fibonacci of an encrypted index (FheUint16) by    *)
(* two strategies, iterative homomorphic additions and lookup over         *)
(* prebuilt encrypted tables, driven by main().                            *)
(***************************************************************************)
EXTENDS Integers, Sequences, FiniteSets, TLC

\* const MAX_FIBONACCI_INDEX: u16 = 24
MAX_FIBONACCI_INDEX == 24

\* number of contiguous pieces the parallel iterator is split into
NumWorkers == 3

\* how many indices above MAX_FIBONACCI_INDEX are typed / queried
MaxExtra == 2

\* u16 arithmetic is modulo 2^16
Modulus == 2 ^ 16

U16Max == Modulus - 1

InRange == 0 .. MAX_FIBONACCI_INDEX

TableLen == MAX_FIBONACCI_INDEX + 1

\* zero-based indexing of a Vec / slice
At(v, i) == v[i + 1]

Range(s) == {s[k] : k \in 1 .. Len(s)}

VARIABLES
  pc,                  \* position in main / in the function being executed
  stdout,              \* last line main printed
  clear_a,             \* main: clear_a
  a,                   \* main: a (the encrypted index, the n of both strategies)
  server_key_installs, \* number of set_server_key calls so far
  encrypted_indices,   \* main: encrypted_indices
  encrypted_fibs,      \* main: encrypted_fibs
  result_add,          \* main: result_add
  result_lt,           \* main: result_lt
  decrypted_add,       \* main: decrypted_add
  decrypted_lt,        \* main: decrypted_lt
  expected,            \* main: outcome of fibonacci_plaintext(clear_a)
  log,                 \* main-level statements completed, in order
  calls,               \* invocations of the two table builders
  par_src,             \* items of the running parallel iterator
  par_done,            \* per piece: items of the piece already encrypted
  par_out,             \* the Vec being collected
  par_count,           \* items encrypted so far
  par_inorder,         \* the items so far completed in index order
  ihr_indices,         \* fibonacci_additions: encrypted_indices (local)
  ihr_a,               \* fibonacci_additions: a
  ihr_b,               \* fibonacci_additions: b
  ihr_result,          \* fibonacci_additions: result
  ihr_i,               \* fibonacci_additions: i
  ihr_trace,           \* homomorphic operations and table reads of the call
  add_overflow,        \* some homomorphic addition exceeded u16::MAX
  tl_result,           \* fibonacci_lookup_with_tables: result
  tl_i,                \* fibonacci_lookup_with_tables: i
  tl_trace,            \* homomorphic operations and table reads of the call
  query,               \* two-query harness: which query is running
  prev                 \* two-query harness: the first query's record

mainVars == <<stdout, clear_a, server_key_installs, encrypted_indices, encrypted_fibs,
              result_add, result_lt, decrypted_add, decrypted_lt, expected, log>>

parVars == <<par_src, par_done, par_out, par_count, par_inorder>>

ihrVars == <<ihr_indices, ihr_a, ihr_b, ihr_result, ihr_i, ihr_trace, add_overflow>>

tlVars == <<tl_result, tl_i, tl_trace>>

pairVars == <<query, prev>>

vars == <<pc, a, calls, mainVars, parVars, ihrVars, tlVars, pairVars>>

----------------------------------------------------------------------------
\* The ciphertext capability (tfhe): a ciphertext carries its plaintext.

Encrypt(v) == [ct |-> v]

Decrypt(c) == c.ct

\* FheUint16 + FheUint16 wraps like u16
FheAdd(x, y) == [ct |-> (x.ct + y.ct) % Modulus]

\* FheUint16::eq gives an encrypted boolean
FheEq(x, y) == [cb |-> x.ct = y.ct]

\* FheBool::select(then, else)
FheSelect(c, x, y) == IF c.cb THEN x ELSE y

\* a slot of a Vec not written yet / a ciphertext variable not assigned yet
Unset == [ct |-> 0 - 1]

----------------------------------------------------------------------------
\* get_number_input: trim, then parse::<u16>

DigitChars == <<"0", "1", "2", "3", "4", "5", "6", "7", "8", "9">>

IsDigit(c) == c \in Range(DigitChars)

DigitValue(c) == (CHOOSE k \in 1 .. 10 : DigitChars[k] = c) - 1

IsSpace(c) == c \in {" ", "\n", "\t", "\r"}

RECURSIVE TrimStart(_)
TrimStart(s) == IF s # <<>> /\ IsSpace(Head(s)) THEN TrimStart(Tail(s)) ELSE s

RECURSIVE TrimEnd(_)
TrimEnd(s) ==
  IF s # <<>> /\ IsSpace(s[Len(s)]) THEN TrimEnd(SubSeq(s, 1, Len(s) - 1)) ELSE s

Trim(s) == TrimEnd(TrimStart(s))

ParseErr == [ok |-> FALSE, value |-> 0]

\* the digit loop of u16::from_str: an invalid digit or a value above u16::MAX is an error
RECURSIVE ParseDigits(_, _)
ParseDigits(s, acc) ==
  IF s = <<>> THEN [ok |-> TRUE, value |-> acc]
  ELSE IF ~IsDigit(Head(s)) THEN ParseErr
  ELSE IF acc * 10 + DigitValue(Head(s)) > U16Max THEN ParseErr
  ELSE ParseDigits(Tail(s), acc * 10 + DigitValue(Head(s)))

\* str::parse::<u16>: empty is an error, one leading '+' is allowed, '-' is no digit
ParseU16(s) ==
  IF s = <<>> THEN ParseErr
  ELSE IF Len(s) = 1 /\ Head(s) \in {"+", "-"} THEN ParseErr
  ELSE IF Head(s) = "+" THEN ParseDigits(Tail(s), 0)
  ELSE ParseDigits(s, 0)

get_number_input(line) == ParseU16(Trim(line))

RECURSIVE Decimal(_)
Decimal(v) ==
  IF v < 10 THEN <<DigitChars[v + 1]>>
  ELSE Append(Decimal(v \div 10), DigitChars[(v % 10) + 1])

\* the lines the user may type: every index up to MAX_FIBONACCI_INDEX + MaxExtra in
\* decimal, and some lines that are no u16
StdinLines ==
  {Decimal(v) \o <<"\n">> : v \in 0 .. (MAX_FIBONACCI_INDEX + MaxExtra)}
  \cup {<<"a", "b", "c", "\n">>, <<"-", "1", "\n">>, <<"\n">>, <<"+", "\n">>,
        <<"6", "5", "5", "3", "6", "\n">>, <<"2", " ", "4", "\n">>,
        <<" ", "+", "7", " ", "\r", "\n">>, <<>>}

----------------------------------------------------------------------------
\* Plaintext recurrences

\* build_fibonacci_table_plain: push a, then MAX_FIBONACCI_INDEX times push b and
\* advance with wrapping_add
RECURSIVE TablePlainLoop(_, _, _, _)
TablePlainLoop(k, x, y, fibs) ==
  IF k > MAX_FIBONACCI_INDEX THEN fibs
  ELSE TablePlainLoop(k + 1, y, (x + y) % Modulus, Append(fibs, y))

build_fibonacci_table_plain == TablePlainLoop(1, 0, 1, <<0>>)

\* fibonacci_plaintext: n times tmp = a + b on u16. With overflow checks (the dev and
\* test profiles) a sum above u16::MAX panics; without them (release) it wraps.
RECURSIVE PlaintextLoop(_, _, _, _, _, _)
PlaintextLoop(k, n, x, y, ovf, checks) ==
  IF k >= n THEN [panicked |-> FALSE, value |-> x, overflowed |-> ovf]
  ELSE IF x + y > U16Max /\ checks
    THEN [panicked |-> TRUE, value |-> 0, overflowed |-> TRUE]
  ELSE PlaintextLoop(k + 1, n, y, (x + y) % Modulus, ovf \/ x + y > U16Max, checks)

fibonacci_plaintext(n, checks) == PlaintextLoop(0, n, 0, 1, FALSE, checks)

NotComputed == [panicked |-> FALSE, value |-> 0 - 1, overflowed |-> FALSE]

----------------------------------------------------------------------------
\* The parallel iterator (rayon): the items are split into NumWorkers contiguous
\* pieces, each piece is encrypted in order, the pieces interleave freely, and
\* collect() writes every result into the slot of its item.

Workers == 1 .. NumWorkers

PieceLo(w) == ((w - 1) * TableLen) \div NumWorkers

PieceHi(w) == (w * TableLen) \div NumWorkers

ParAllDone == \A w \in Workers : PieceLo(w) + par_done[w] >= PieceHi(w)

\* the slot arrival order would give (a collect that pushes results as they complete)
CollectSlotByArrival(i) == par_count

\* the slot of the output Vec that item i's result is written to
CollectSlot(i) == i

ParStart(items) ==
  /\ par_src' = items
  /\ par_done' = [w \in Workers |-> 0]
  /\ par_out' = [k \in 1 .. Len(items) |-> Unset]
  /\ par_count' = 0
  /\ par_inorder' = TRUE

\* (0..=MAX_FIBONACCI_INDEX)
IndexItems == [k \in 1 .. TableLen |-> k - 1]

\* one task: .map(|i| FheUint16::encrypt(i, pks))
EncryptTask(w) ==
  /\ pc \in {"par_main_indices", "par_main_fibs", "par_ihr_indices"}
  /\ PieceLo(w) + par_done[w] < PieceHi(w)
  /\ LET i == PieceLo(w) + par_done[w]
     IN /\ par_out' = [par_out EXCEPT ![CollectSlot(i) + 1] = Encrypt(At(par_src, i))]
        /\ par_inorder' = (par_inorder /\ i = par_count)
  /\ par_done' = [par_done EXCEPT ![w] = @ + 1]
  /\ par_count' = par_count + 1
  /\ UNCHANGED <<pc, a, calls, par_src, mainVars, ihrVars, tlVars, pairVars>>

----------------------------------------------------------------------------
\* Entries of the operation traces

OpAdd == <<"add", "", 0>>

OpEq == <<"eq", "", 0>>

OpSelect == <<"select", "", 0>>

OpRead(table, i) == <<"read", table, i>>

----------------------------------------------------------------------------
\* fibonacci_additions(n, pks), with n = a

\* let encrypted_indices = build_encrypted_indices(pks), skipped in favour of the
\* caller's table
AdditionsUsePrebuilt ==
  /\ pc = "fibonacci_additions"
  /\ pc' = "par_ihr_indices"
  /\ par_src' = IndexItems
  /\ par_done' = [w \in Workers |-> PieceHi(w) - PieceLo(w)]
  /\ par_out' = encrypted_indices
  /\ par_count' = TableLen
  /\ par_inorder' = TRUE
  /\ ihr_indices' = <<>>
  /\ ihr_a' = Unset
  /\ ihr_b' = Unset
  /\ ihr_result' = Unset
  /\ ihr_i' = 0
  /\ ihr_trace' = <<>>
  /\ UNCHANGED <<a, calls, add_overflow, mainVars, tlVars, pairVars>>

\* let encrypted_indices = build_encrypted_indices(pks): the call starts its own
\* parallel build of the index table
AdditionsBuildIndices ==
  /\ pc = "fibonacci_additions"
  /\ pc' = "par_ihr_indices"
  /\ ParStart(IndexItems)
  /\ calls' = [calls EXCEPT !.indices = @ + 1]
  /\ ihr_indices' = <<>>
  /\ ihr_a' = Unset
  /\ ihr_b' = Unset
  /\ ihr_result' = Unset
  /\ ihr_i' = 0
  /\ ihr_trace' = <<>>
  /\ UNCHANGED <<a, add_overflow, mainVars, tlVars, pairVars>>

\* collect() returns the table
AdditionsIndicesBuilt ==
  /\ pc = "par_ihr_indices"
  /\ ParAllDone
  /\ ihr_indices' = par_out
  /\ pc' = "ihr_seed"
  /\ UNCHANGED <<a, calls, ihr_a, ihr_b, ihr_result, ihr_i, ihr_trace, add_overflow,
                 mainVars, parVars, tlVars, pairVars>>

\* the seed with the arms of the select exchanged
SeedResultSwapped ==
  FheSelect(FheEq(a, At(ihr_indices, 0)), At(ihr_indices, 1), At(ihr_indices, 0))

\* n_is_0.select(&a, &b) with a = encrypted_indices[0], b = encrypted_indices[1]
SeedResult ==
  FheSelect(FheEq(a, At(ihr_indices, 0)), At(ihr_indices, 0), At(ihr_indices, 1))

AdditionsSeed ==
  /\ pc = "ihr_seed"
  /\ ihr_a' = At(ihr_indices, 0)
  /\ ihr_b' = At(ihr_indices, 1)
  /\ ihr_result' = SeedResult
  /\ ihr_i' = 2
  /\ ihr_trace' = <<OpRead("local.encrypted_indices", 0), OpEq,
                    OpRead("local.encrypted_indices", 0),
                    OpRead("local.encrypted_indices", 1), OpSelect>>
  /\ pc' = "ihr_loop"
  /\ UNCHANGED <<a, calls, ihr_indices, add_overflow, mainVars, parVars, tlVars, pairVars>>

\* a loop that stops once the index has been matched
IhrLoopDoneOnMatch == ihr_i > MAX_FIBONACCI_INDEX \/ Decrypt(a) < ihr_i

\* for i in 2..=MAX_FIBONACCI_INDEX is exhausted
IhrLoopDone == ihr_i > MAX_FIBONACCI_INDEX

\* one iteration of the loop
AdditionsLoop ==
  /\ pc = "ihr_loop"
  /\ ~IhrLoopDone
  /\ LET next_fib == FheAdd(ihr_a, ihr_b)
         i_encrypted == At(ihr_indices, ihr_i)
         n_is_i == FheEq(a, i_encrypted)
     IN /\ ihr_a' = ihr_b
        /\ ihr_b' = next_fib
        /\ ihr_result' = FheSelect(n_is_i, next_fib, ihr_result)
  /\ add_overflow' = (add_overflow \/ Decrypt(ihr_a) + Decrypt(ihr_b) > U16Max)
  /\ ihr_trace' = ihr_trace \o <<OpAdd, OpRead("local.encrypted_indices", ihr_i),
                                 OpEq, OpSelect>>
  /\ ihr_i' = ihr_i + 1
  /\ UNCHANGED <<pc, a, calls, ihr_indices, mainVars, parVars, tlVars, pairVars>>

\* the loop is over: result is returned
AdditionsReturn ==
  /\ pc = "ihr_loop"
  /\ IhrLoopDone
  /\ pc' = "ihr_ret"
  /\ UNCHANGED <<a, calls, mainVars, parVars, ihrVars, tlVars, pairVars>>

----------------------------------------------------------------------------
\* fibonacci_lookup_with_tables(n, encrypted_indices, encrypted_fibs), with n = a
\* and the tables main built

\* the lookup starting from entry 1 of the table
LookupDefaultOne == At(encrypted_fibs, 1)

\* let mut result = encrypted_fibs[0].clone()
LookupDefault == At(encrypted_fibs, 0)

LookupInit ==
  /\ pc = "fibonacci_lookup_with_tables"
  /\ tl_result' = LookupDefault
  /\ tl_i' = 1
  /\ tl_trace' = <<OpRead("arg.encrypted_fibs", 0)>>
  /\ pc' = "tl_loop"
  /\ UNCHANGED <<a, calls, mainVars, parVars, ihrVars, pairVars>>

\* one iteration of for i in 1..=MAX_FIBONACCI_INDEX
LookupLoop ==
  /\ pc = "tl_loop"
  /\ tl_i <= MAX_FIBONACCI_INDEX
  /\ LET is_match == FheEq(a, At(encrypted_indices, tl_i))
     IN tl_result' = FheSelect(is_match, At(encrypted_fibs, tl_i), tl_result)
  /\ tl_trace' = tl_trace \o <<OpRead("arg.encrypted_indices", tl_i), OpEq,
                               OpRead("arg.encrypted_fibs", tl_i), OpSelect>>
  /\ tl_i' = tl_i + 1
  /\ UNCHANGED <<pc, a, calls, mainVars, parVars, ihrVars, pairVars>>

LookupReturn ==
  /\ pc = "tl_loop"
  /\ tl_i > MAX_FIBONACCI_INDEX
  /\ pc' = "tl_ret"
  /\ UNCHANGED <<a, calls, mainVars, parVars, ihrVars, tlVars, pairVars>>

----------------------------------------------------------------------------
\* main()

\* main with set_server_key moved behind the call of fibonacci_additions
MainOrderKeyLate ==
  <<"generate_keys", "public_key", "get_number_input", "encrypt_input",
    "build_encrypted_indices", "build_encrypted_fibs", "fibonacci_additions",
    "set_server_key", "fibonacci_lookup_with_tables", "decrypt_add", "decrypt_lt",
    "fibonacci_plaintext", "report", "done">>

\* the statements of main in program order
MainOrder ==
  <<"generate_keys", "public_key", "get_number_input", "encrypt_input",
    "set_server_key", "build_encrypted_indices", "build_encrypted_fibs",
    "fibonacci_additions", "fibonacci_lookup_with_tables", "decrypt_add", "decrypt_lt",
    "fibonacci_plaintext", "report", "done">>

After(stmt) == MainOrder[(CHOOSE k \in 1 .. Len(MainOrder) : MainOrder[k] = stmt) + 1]

\* the statement is completed and control moves to the next one
Completes(stmt) ==
  /\ pc' = After(stmt)
  /\ log' = Append(log, stmt)

\* let (client_key, server_key) = generate_keys(config)
GenerateKeys ==
  /\ pc = "generate_keys"
  /\ Completes("generate_keys")
  /\ UNCHANGED <<a, calls, stdout, clear_a, server_key_installs, encrypted_indices,
                 encrypted_fibs, result_add, result_lt, decrypted_add, decrypted_lt,
                 expected, parVars, ihrVars, tlVars, pairVars>>

\* let pks = PublicKey::new(&client_key)
DerivePublicKey ==
  /\ pc = "public_key"
  /\ Completes("public_key")
  /\ UNCHANGED <<a, calls, stdout, clear_a, server_key_installs, encrypted_indices,
                 encrypted_fibs, result_add, result_lt, decrypted_add, decrypted_lt,
                 expected, parVars, ihrVars, tlVars, pairVars>>

\* Ok(num) => break num, then println!("You entered: {}", clear_a)
InputAccepted ==
  /\ pc = "get_number_input"
  /\ \E line \in StdinLines :
       /\ get_number_input(line).ok
       /\ clear_a' = get_number_input(line).value
  /\ stdout' = "You entered"
  /\ Completes("get_number_input")
  /\ UNCHANGED <<a, calls, server_key_installs, encrypted_indices, encrypted_fibs,
                 result_add, result_lt, decrypted_add, decrypted_lt, expected,
                 parVars, ihrVars, tlVars, pairVars>>

\* Err(_) => println!("Invalid input. ..."), and the loop asks again
InputRejected ==
  /\ pc = "get_number_input"
  /\ \E line \in StdinLines : ~get_number_input(line).ok
  /\ stdout' = "Invalid input. Please enter a number between 0 and 24."
  /\ UNCHANGED <<pc, a, calls, clear_a, server_key_installs, encrypted_indices,
                 encrypted_fibs, result_add, result_lt, decrypted_add, decrypted_lt,
                 expected, log, parVars, ihrVars, tlVars, pairVars>>

\* let a = FheUint16::encrypt(clear_a, &client_key)
EncryptInput ==
  /\ pc = "encrypt_input"
  /\ a' = Encrypt(clear_a)
  /\ Completes("encrypt_input")
  /\ UNCHANGED <<calls, stdout, clear_a, server_key_installs, encrypted_indices,
                 encrypted_fibs, result_add, result_lt, decrypted_add, decrypted_lt,
                 expected, parVars, ihrVars, tlVars, pairVars>>

\* set_server_key(server_key), then println!("Computing Fibonacci ...")
SetServerKey ==
  /\ pc = "set_server_key"
  /\ server_key_installs' = server_key_installs + 1
  /\ stdout' = "Computing Fibonacci with two strategies..."
  /\ Completes("set_server_key")
  /\ UNCHANGED <<a, calls, clear_a, encrypted_indices, encrypted_fibs, result_add,
                 result_lt, decrypted_add, decrypted_lt, expected, parVars, ihrVars,
                 tlVars, pairVars>>

\* let encrypted_indices = build_encrypted_indices(&pks): the parallel build starts
MainBuildIndices ==
  /\ pc = "build_encrypted_indices"
  /\ pc' = "par_main_indices"
  /\ ParStart(IndexItems)
  /\ calls' = [calls EXCEPT !.indices = @ + 1]
  /\ UNCHANGED <<a, mainVars, ihrVars, tlVars, pairVars>>

\* collect() returns the index table
MainIndicesBuilt ==
  /\ pc = "par_main_indices"
  /\ ParAllDone
  /\ encrypted_indices' = par_out
  /\ Completes("build_encrypted_indices")
  /\ UNCHANGED <<a, calls, stdout, clear_a, server_key_installs, encrypted_fibs,
                 result_add, result_lt, decrypted_add, decrypted_lt, expected,
                 parVars, ihrVars, tlVars, pairVars>>

\* let encrypted_fibs = build_encrypted_fibs(&pks): the plaintext table is computed
\* and its parallel encryption starts
MainBuildFibs ==
  /\ pc = "build_encrypted_fibs"
  /\ pc' = "par_main_fibs"
  /\ ParStart(build_fibonacci_table_plain)
  /\ calls' = [calls EXCEPT !.fibs = @ + 1]
  /\ UNCHANGED <<a, mainVars, ihrVars, tlVars, pairVars>>

\* collect() returns the Fibonacci table
MainFibsBuilt ==
  /\ pc = "par_main_fibs"
  /\ ParAllDone
  /\ encrypted_fibs' = par_out
  /\ Completes("build_encrypted_fibs")
  /\ UNCHANGED <<a, calls, stdout, clear_a, server_key_installs, encrypted_indices,
                 result_add, result_lt, decrypted_add, decrypted_lt, expected,
                 parVars, ihrVars, tlVars, pairVars>>

\* let result_add = fibonacci_additions(&a, &pks)
MainAdditionsDone ==
  /\ pc = "ihr_ret"
  /\ result_add' = ihr_result
  /\ Completes("fibonacci_additions")
  /\ UNCHANGED <<a, calls, stdout, clear_a, server_key_installs, encrypted_indices,
                 encrypted_fibs, result_lt, decrypted_add, decrypted_lt, expected,
                 parVars, ihrVars, tlVars, pairVars>>

\* let result_lt = fibonacci_lookup_with_tables(&a, &encrypted_indices, &encrypted_fibs)
MainLookupDone ==
  /\ pc = "tl_ret"
  /\ result_lt' = tl_result
  /\ Completes("fibonacci_lookup_with_tables")
  /\ UNCHANGED <<a, calls, stdout, clear_a, server_key_installs, encrypted_indices,
                 encrypted_fibs, result_add, decrypted_add, decrypted_lt, expected,
                 parVars, ihrVars, tlVars, pairVars>>

\* let decrypted_add: u16 = result_add.decrypt(&client_key)
DecryptAdd ==
  /\ pc = "decrypt_add"
  /\ decrypted_add' = Decrypt(result_add)
  /\ Completes("decrypt_add")
  /\ UNCHANGED <<a, calls, stdout, clear_a, server_key_installs, encrypted_indices,
                 encrypted_fibs, result_add, result_lt, decrypted_lt, expected,
                 parVars, ihrVars, tlVars, pairVars>>

\* let decrypted_lt: u16 = result_lt.decrypt(&client_key)
DecryptLt ==
  /\ pc = "decrypt_lt"
  /\ decrypted_lt' = Decrypt(result_lt)
  /\ Completes("decrypt_lt")
  /\ UNCHANGED <<a, calls, stdout, clear_a, server_key_installs, encrypted_indices,
                 encrypted_fibs, result_add, result_lt, decrypted_add, expected,
                 parVars, ihrVars, tlVars, pairVars>>

\* let expected = fibonacci_plaintext(clear_a): the build profile decides whether an
\* overflowing addition panics or wraps
PlaintextReference ==
  /\ pc = "fibonacci_plaintext"
  /\ \E checks \in BOOLEAN :
       /\ expected' = fibonacci_plaintext(clear_a, checks)
       /\ IF expected'.panicked
            THEN pc' = "panicked" /\ log' = log
            ELSE Completes("fibonacci_plaintext")
  /\ stdout' = IF expected'.panicked THEN "attempt to add with overflow" ELSE stdout
  /\ UNCHANGED <<a, calls, clear_a, server_key_installs, encrypted_indices,
                 encrypted_fibs, result_add, result_lt, decrypted_add, decrypted_lt,
                 parVars, ihrVars, tlVars, pairVars>>

\* the four println! of the results
Report ==
  /\ pc = "report"
  /\ stdout' = "Expected"
  /\ Completes("report")
  /\ UNCHANGED <<a, calls, clear_a, server_key_installs, encrypted_indices,
                 encrypted_fibs, result_add, result_lt, decrypted_add, decrypted_lt,
                 expected, parVars, ihrVars, tlVars, pairVars>>

NoQuery == [n |-> 0 - 1, ihr_trace |-> <<>>, tl_trace |-> <<>>]

Init ==
  /\ pc = "generate_keys"
  /\ stdout = ""
  /\ clear_a = 0
  /\ a = Unset
  /\ server_key_installs = 0
  /\ encrypted_indices = <<>>
  /\ encrypted_fibs = <<>>
  /\ result_add = Unset
  /\ result_lt = Unset
  /\ decrypted_add = 0
  /\ decrypted_lt = 0
  /\ expected = NotComputed
  /\ log = <<>>
  /\ calls = [indices |-> 0, fibs |-> 0]
  /\ par_src = <<>>
  /\ par_done = [w \in Workers |-> 0]
  /\ par_out = <<>>
  /\ par_count = 0
  /\ par_inorder = TRUE
  /\ ihr_indices = <<>>
  /\ ihr_a = Unset
  /\ ihr_b = Unset
  /\ ihr_result = Unset
  /\ ihr_i = 0
  /\ ihr_trace = <<>>
  /\ add_overflow = FALSE
  /\ tl_result = Unset
  /\ tl_i = 0
  /\ tl_trace = <<>>
  /\ query = 1
  /\ prev = NoQuery

Next ==
  \/ GenerateKeys
  \/ DerivePublicKey
  \/ InputAccepted
  \/ InputRejected
  \/ EncryptInput
  \/ SetServerKey
  \/ MainBuildIndices
  \/ MainIndicesBuilt
  \/ MainBuildFibs
  \/ MainFibsBuilt
  \/ \E w \in Workers : EncryptTask(w)
  \/ AdditionsBuildIndices
  \/ AdditionsIndicesBuilt
  \/ AdditionsSeed
  \/ AdditionsLoop
  \/ AdditionsReturn
  \/ MainAdditionsDone
  \/ LookupInit
  \/ LookupLoop
  \/ LookupReturn
  \/ MainLookupDone
  \/ DecryptAdd
  \/ DecryptLt
  \/ PlaintextReference
  \/ Report

Spec == Init /\ [][Next]_vars

----------------------------------------------------------------------------
\* Two queries in one process against the same installed key and prebuilt tables, as
\* in the loop of test_diff_fibonacci: fibonacci_additions, then
\* fibonacci_lookup_with_tables, for a first and then a second encrypted index.

\* the indices queried: both seed cases, the last index of the table, indices above
\* it, and the largest u16
Secrets ==
  {0, 1, MAX_FIBONACCI_INDEX, U16Max}
  \cup ((MAX_FIBONACCI_INDEX + 1) .. (MAX_FIBONACCI_INDEX + MaxExtra))

InitPair ==
  /\ pc = "fibonacci_additions"
  /\ stdout = ""
  /\ \E n \in Secrets : clear_a = n /\ a = Encrypt(n)
  /\ server_key_installs = 1
  /\ encrypted_indices = [k \in 1 .. TableLen |-> Encrypt(k - 1)]
  /\ encrypted_fibs = [k \in 1 .. TableLen |-> Encrypt(build_fibonacci_table_plain[k])]
  /\ result_add = Unset
  /\ result_lt = Unset
  /\ decrypted_add = 0
  /\ decrypted_lt = 0
  /\ expected = NotComputed
  /\ log = <<>>
  /\ calls = [indices |-> 1, fibs |-> 1]
  /\ par_src = <<>>
  /\ par_done = [w \in Workers |-> 0]
  /\ par_out = <<>>
  /\ par_count = 0
  /\ par_inorder = TRUE
  /\ ihr_indices = <<>>
  /\ ihr_a = Unset
  /\ ihr_b = Unset
  /\ ihr_result = Unset
  /\ ihr_i = 0
  /\ ihr_trace = <<>>
  /\ add_overflow = FALSE
  /\ tl_result = Unset
  /\ tl_i = 0
  /\ tl_trace = <<>>
  /\ query = 1
  /\ prev = NoQuery

\* let enc_add = fibonacci_additions(&encrypted, &pks)
PairAdditionsDone ==
  /\ pc = "ihr_ret"
  /\ result_add' = ihr_result
  /\ pc' = "fibonacci_lookup_with_tables"
  /\ UNCHANGED <<a, calls, stdout, clear_a, server_key_installs, encrypted_indices,
                 encrypted_fibs, result_lt, decrypted_add, decrypted_lt, expected, log,
                 parVars, ihrVars, tlVars, pairVars>>

\* let enc_lt = fibonacci_lookup_with_tables(...) of the first query, and the next
\* index is encrypted
PairNextQuery ==
  /\ pc = "tl_ret"
  /\ query = 1
  /\ result_lt' = tl_result
  /\ prev' = [n |-> clear_a, ihr_trace |-> ihr_trace, tl_trace |-> tl_trace]
  /\ query' = 2
  /\ \E n \in Secrets : clear_a' = n /\ a' = Encrypt(n)
  /\ pc' = "fibonacci_additions"
  /\ UNCHANGED <<calls, stdout, server_key_installs, encrypted_indices, encrypted_fibs,
                 result_add, decrypted_add, decrypted_lt, expected, log,
                 parVars, ihrVars, tlVars>>

NextPair ==
  \/ \E w \in Workers : EncryptTask(w)
  \/ AdditionsBuildIndices
  \/ AdditionsIndicesBuilt
  \/ AdditionsSeed
  \/ AdditionsLoop
  \/ AdditionsReturn
  \/ PairAdditionsDone
  \/ LookupInit
  \/ LookupLoop
  \/ LookupReturn
  \/ PairNextQuery

SpecPair == InitPair /\ [][NextPair]_vars

----------------------------------------------------------------------------
\* Properties

\* C1: for every index n in 0..=24, decrypting fibonacci_additions(encrypt(n)) gives
\* the value fibonacci_plaintext(n) returns (so fibonacci_plaintext(n) returns one).
C1_AdditionsEqualsPlaintext ==
  (pc \in {"report", "done", "panicked"} /\ clear_a \in InRange)
    => (~expected.panicked /\ decrypted_add = expected.value)

\* C2: for every index n in 0..=24, the lookup over the tables main built and the
\* iterative additions decrypt to the same value.
C2_LookupAgreesWithAdditions ==
  /\ (pc \in {"fibonacci_plaintext", "report", "done", "panicked"} /\ clear_a \in InRange)
       => decrypted_lt = decrypted_add
  /\ (pc = "tl_ret" /\ clear_a \in InRange) => Decrypt(tl_result) = Decrypt(ihr_result)

C2_LastIndexAgrees ==
  /\ pc = "done"
  /\ clear_a = MAX_FIBONACCI_INDEX
  /\ decrypted_add = 46368
  /\ decrypted_lt = 46368

\* C3: two calls of fibonacci_additions on two secret indices perform the same
\* sequence of additions, equality tests, selects and table reads, and so do two
\* calls of fibonacci_lookup_with_tables.
C3_Oblivious ==
  /\ (query = 2 /\ pc \in {"ihr_ret", "fibonacci_lookup_with_tables", "tl_loop", "tl_ret"})
       => ihr_trace = prev.ihr_trace
  /\ (query = 2 /\ pc = "tl_ret") => tl_trace = prev.tl_trace

C3_TwoSecretsCompared ==
  /\ query = 2
  /\ pc = "tl_ret"
  /\ prev.n = 0
  /\ clear_a = U16Max
  /\ Len(ihr_trace) > MAX_FIBONACCI_INDEX
  /\ Len(tl_trace) > MAX_FIBONACCI_INDEX

\* C4: the index main passes on from its input loop is always within 0..=24.
C4_AcceptedInputInRange ==
  "get_number_input" \in Range(log) => clear_a \in InRange

\* C5: build_encrypted_indices returns a table of length 25 whose entry i decrypts to
\* i, whatever the order in which the encryption tasks completed: every result is
\* collected at the position of its index.
C5_IndexTableInIndexOrder ==
  /\ encrypted_indices # <<>>
       => /\ Len(encrypted_indices) = TableLen
          /\ \A i \in InRange : Decrypt(At(encrypted_indices, i)) = i
  /\ ihr_indices # <<>>
       => /\ Len(ihr_indices) = TableLen
          /\ \A i \in InRange : Decrypt(At(ihr_indices, i)) = i
  /\ pc \in {"par_main_indices", "par_ihr_indices"}
       => /\ Len(par_out) = TableLen
          /\ \A i \in InRange : At(par_out, i) \in {Unset, Encrypt(i)}

C5_BuiltOutOfOrder ==
  /\ pc = "build_encrypted_fibs"
  /\ ~par_inorder
  /\ Len(encrypted_indices) = TableLen

\* C6: build_encrypted_fibs returns a table of length 25 whose entry i decrypts to the
\* value fibonacci_plaintext(i) returns, for every i in 0..=24.
C6_FibTableEqualsPlaintext ==
  (pc \in {"report", "done", "panicked"} /\ clear_a \in InRange)
    => /\ Len(encrypted_fibs) = TableLen
       /\ ~expected.panicked
       /\ Decrypt(At(encrypted_fibs, clear_a)) = expected.value

\* C7 as stated: the evaluation key is installed before the input index is encrypted.
C7_KeyInstalledBeforeInputEncrypted ==
  "encrypt_input" \in Range(log) => server_key_installs = 1

\* C7: the statements a run of main completes occur in the order key generation,
\* public key, input, encryption of the input index, installation of the evaluation
\* key (at most once), index table, Fibonacci table, additions, lookup, decryption of
\* both results, plaintext reference, report; the key is installed after the index is
\* encrypted and before any homomorphic add, equality or select.
C7_InputEncryptedThenKeyInstalled ==
  LET order == <<"generate_keys", "public_key", "get_number_input", "encrypt_input",
                 "set_server_key", "build_encrypted_indices", "build_encrypted_fibs",
                 "fibonacci_additions", "fibonacci_lookup_with_tables", "decrypt_add",
                 "decrypt_lt", "fibonacci_plaintext", "report">>
  IN /\ Len(log) <= Len(order)
     /\ log = SubSeq(order, 1, Len(log))
     /\ server_key_installs <= 1
     /\ server_key_installs = 1 <=> "set_server_key" \in Range(log)
     /\ server_key_installs = 1 => a # Unset
     /\ (ihr_trace # <<>> \/ tl_trace # <<>>) => server_key_installs = 1

C7_RunCompleted ==
  /\ pc = "done"
  /\ Len(log) = 13
  /\ server_key_installs = 1

\* C8 as stated: in one run of main the index table and the Fibonacci table are each
\* constructed exactly once.
C8_TablesBuiltOnce ==
  pc \in {"done", "panicked"} => (calls.indices = 1 /\ calls.fibs = 1)

\* C8: in one run of main the Fibonacci table is constructed once and the index table
\* twice, by main and again inside fibonacci_additions; fibonacci_additions reads only
\* the table it built, fibonacci_lookup_with_tables only the tables main built.
C8_IndexTableBuiltTwice ==
  /\ calls.indices <= 2
  /\ calls.fibs <= 1
  /\ "build_encrypted_fibs" \in Range(log) => (calls.indices >= 1 /\ calls.fibs = 1)
  /\ ihr_trace # <<>> => calls.indices = 2
  /\ pc \in {"done", "panicked"} => (calls.indices = 2 /\ calls.fibs = 1)
  /\ \A k \in 1 .. Len(ihr_trace) :
       ihr_trace[k][1] = "read" => ihr_trace[k][2] = "local.encrypted_indices"
  /\ \A k \in 1 .. Len(tl_trace) :
       tl_trace[k][1] = "read"
         => tl_trace[k][2] \in {"arg.encrypted_indices", "arg.encrypted_fibs"}

C8_RunWithTwoIndexBuilds ==
  /\ pc = "done"
  /\ calls.indices = 2
  /\ calls.fibs = 1
  /\ Len(tl_trace) > MAX_FIBONACCI_INDEX

\* C9: for an index above 24 no entry of the index table equals it, and
\* fibonacci_additions returns an encryption of 1 while fibonacci_lookup_with_tables
\* returns an encryption of 0.
C9_OutOfRangeDefaultsDiffer ==
  (pc = "tl_ret" /\ clear_a \notin InRange)
    => /\ \A i \in InRange : ~FheEq(a, At(encrypted_indices, i)).cb
       /\ \A i \in InRange : ~FheEq(a, At(ihr_indices, i)).cb
       /\ Decrypt(ihr_result) = 1
       /\ Decrypt(tl_result) = 0
       /\ Decrypt(ihr_result) # Decrypt(tl_result)

C9_LargestIndexQueried ==
  /\ pc = "tl_ret"
  /\ clear_a = U16Max
  /\ Decrypt(ihr_result) = 1
  /\ Decrypt(tl_result) = 0

\* C10: for every n in 0..=24 no addition of fibonacci_plaintext(n) and no homomorphic
\* addition of fibonacci_additions exceeds u16::MAX, and fibonacci_plaintext(24)
\* returns 46368.
C10_NoAdditionOverflows ==
  /\ ~add_overflow
  /\ (pc \in {"report", "done", "panicked"} /\ clear_a \in InRange)
       => (~expected.overflowed /\ ~expected.panicked)
  /\ (pc \in {"report", "done", "panicked"} /\ clear_a = MAX_FIBONACCI_INDEX)
       => expected.value = 46368

====
